---- MODULE Spec2Model ----
(***************************************************************************)
(* Model of binance_discord_trading_bot.py: the BotState shared by the     *)
(* price monitor loop (TradingBot.price_monitor_loop / on_price) and the   *)
(* Discord commands, which all run as coroutines on one asyncio event      *)
(* loop.  A coroutine runs without interruption from one await to the      *)
(* next, so every action below is the code between two awaits.             *)
(*                                                                         *)
(* Numbers: prices and amounts are integers; decrease_pct / increase_pct   *)
(* are kept in per cent (0.02 is 2), and the thresholds of on_price are    *)
(* compared after multiplying both sides by 100, in exact arithmetic.      *)
(***************************************************************************)
EXTENDS Integers, FiniteSets, Sequences, TLC

(* ---------------- bounds and input sets ---------------- *)

\* number of save_state calls that may raise in one run
MaxSaveFailures == 1

\* symbols the operator passes to setcoin (already upper-cased)
Symbols == {"BTCUSDT", "ETHUSDT"}

\* prices the exchange reports (ticker prices and average fill prices)
Prices == {98, 100, 103}

\* arguments the operator passes to set_decrease / set_increase, in per cent
DecreaseInputs == {0, 2, 10, 100}
IncreaseInputs == {0, 3, 10, 100}

\* arguments the operator passes to set_amount / set_budget
AmountInputs == {0, 50, 100}
BudgetInputs == {0, 100, 500}

(* ---------------- program constants ---------------- *)

DefaultSymbol == "BTCUSDT"
DefaultDecreasePct == 2
DefaultIncreasePct == 3
DefaultTxAmount == 50
DefaultAllocatedBudget == 500

\* Parameters()
DefaultParams ==
    [symbol |-> DefaultSymbol,
     decrease_pct |-> DefaultDecreasePct,
     increase_pct |-> DefaultIncreasePct,
     tx_amount |-> DefaultTxAmount,
     allocated_budget |-> DefaultAllocatedBudget]

\* Python's None for last_reference_price and price_task (prices and task
\* numbers are positive), and for a symbol that is not set
None == 0
NoSymbol == ""

VARIABLES
    params,                \* state.params
    remaining_budget,      \* state.remaining_budget
    positions,             \* state.positions: a dict from symbols to Positions
    last_reference_price,  \* state.last_reference_price
    running,               \* state.running
    disk,                  \* the dict `serializable` that json.dump wrote last
    tasks,                 \* the price_monitor_loop tasks and their locals
    price_task,            \* TradingBot.price_task
    starting,              \* TradingBot.start coroutines awaiting create_binance_client
    refSymbol,             \* history: symbol whose ticker gave last_reference_price
    saveFailures           \* history: number of save_state calls that raised

vars == <<params, remaining_budget, positions, last_reference_price, running,
          disk, tasks, price_task, starting, refSymbol, saveFailures>>

\* the five fields of a BotState, and the dict `serializable` of save_state
Serializable(p, rb, pos, ref, run) ==
    [params |-> p, remaining_budget |-> rb, positions |-> pos,
     last_reference_price |-> ref, running |-> run]

\* Position(symbol, quantity, buy_price, highest_price); quantity is kept as 1
\* for any quantity > 0, entry_time is not modelled
Position(sym, bp, hp) == [symbol |-> sym, buy_price |-> bp, highest_price |-> hp]

\* the dict state.positions: {} , positions[key] = pos, del positions[key]
NoPositions == [s \in {} |-> Position(s, 0, 0)]
DictSet(d, key, val) == [s \in DOMAIN d \cup {key} |-> IF s = key THEN val ELSE d[s]]
DictDel(d, key) == [s \in DOMAIN d \ {key} |-> d[s]]

\* JSON values as json.dump writes them: null, true, false, a number, a string
JsonNull == [type |-> "null", val |-> 0]
JsonBool(b) == [type |-> IF b THEN "true" ELSE "false", val |-> 0]
JsonNumber(n) == [type |-> "number", val |-> n]
JsonString(str) == [type |-> "string", val |-> str]

\* an Optional[float]: None is written as null
JsonOptional(v) == IF v = None THEN JsonNull ELSE JsonNumber(v)

\* json.dump(serializable, f): the document written to bot_state.json
json_dump(ser) ==
    [params |->
        [symbol |-> JsonString(ser.params.symbol),
         decrease_pct |-> JsonNumber(ser.params.decrease_pct),
         increase_pct |-> JsonNumber(ser.params.increase_pct),
         tx_amount |-> JsonNumber(ser.params.tx_amount),
         allocated_budget |-> JsonNumber(ser.params.allocated_budget)],
     remaining_budget |-> JsonNumber(ser.remaining_budget),
     positions |->
        [s \in DOMAIN ser.positions |->
            [symbol |-> JsonString(ser.positions[s].symbol),
             buy_price |-> JsonNumber(ser.positions[s].buy_price),
             highest_price |-> JsonNumber(ser.positions[s].highest_price)]],
     last_reference_price |-> JsonOptional(ser.last_reference_price),
     running |-> JsonBool(ser.running)]

\* json.load(f): the Python value of a JSON value, and the dict of a document
JsonValue(j) ==
    IF j.type = "null" THEN None
    ELSE IF j.type = "true" THEN TRUE
    ELSE IF j.type = "false" THEN FALSE
    ELSE j.val

JsonObject(o) == [k \in DOMAIN o |-> JsonValue(o[k])]

json_load(doc) ==
    [k \in DOMAIN doc |->
        IF k = "params" THEN JsonObject(doc[k])
        ELSE IF k = "positions" THEN [s \in DOMAIN doc[k] |-> JsonObject(doc[k][s])]
        ELSE JsonValue(doc[k])]

\* the content of bot_state.json
StateFile == json_dump(disk)

\* dict.get(key, default)
Get(d, key, default) == IF key \in DOMAIN d THEN d[key] ELSE default

\* load_state() when bot_state.json exists with content doc: the five fields
\* of the BotState it returns.  Parameters(**d) and Position(**v) take every
\* field from the dict (a missing field of Parameters takes its default).
load_state(doc) ==
    LET raw == json_load(doc)
        d == Get(raw, "params", [k \in {} |-> 0])
        p == [k \in DOMAIN DefaultParams |-> Get(d, k, DefaultParams[k])]
        positions_raw == Get(raw, "positions", NoPositions)
    IN Serializable(p,
                    Get(raw, "remaining_budget", p.allocated_budget),
                    [k \in DOMAIN positions_raw |->
                        Position(positions_raw[k].symbol, positions_raw[k].buy_price,
                                 positions_raw[k].highest_price)],
                    Get(raw, "last_reference_price", None),
                    Get(raw, "running", FALSE))

\* the slots for price_monitor_loop tasks: a specification takes some of
\* AllSlots in its initial state
AllSlots == {1, 2}
Tasks == DOMAIN tasks

\* a task slot that holds no live price_monitor_loop
\*   pc: "none" no task was created, or it left the while loop, or it was
\*       ended by task.cancel();  "lost" it was ended by task.cancel() while
\*       it awaited an order that the exchange executed
\* a live task:
\*   pc: "top" before the while test (just created, or in asyncio.sleep),
\*       "fetch" awaiting get_current_price, "buy" awaiting market_buy,
\*       "sell_pt" / "sell_ts" awaiting market_sell (profit target / trailing stop)
\*   sym: symbol passed to get_current_price, which gave on_price's argument
\*   price: on_price's argument, osym: pos.symbol (both kept while market_sell
\*          is awaited: its continuation reads them)
\*   amt: quote amount sent with market_buy
\*   detached, par: on_price's local params is the object state.params
\*        (detached = FALSE), or the object that reset() removed from the
\*        state, with the fields par
IdleTask(pc) ==
    [pc |-> pc, sym |-> NoSymbol, price |-> 0, osym |-> NoSymbol, amt |-> 0,
     detached |-> FALSE, par |-> DefaultParams]

Alive(t) == tasks[t].pc \in {"top", "fetch", "buy", "sell_pt", "sell_ts"}

\* the module-level state after `state = load_state()` without a state file,
\* and the TradingBot built on it
InitState ==
    /\ params = DefaultParams
    /\ remaining_budget = DefaultParams.allocated_budget
    /\ positions = NoPositions
    /\ last_reference_price = None
    /\ running = FALSE
    /\ disk = Serializable(DefaultParams, DefaultParams.allocated_budget,
                           NoPositions, None, FALSE)
    /\ price_task = None
    /\ starting = 0
    /\ refSymbol = NoSymbol
    /\ saveFailures = 0

\* one slot: start is not issued while an earlier loop task is still alive
Init ==
    /\ InitState
    /\ tasks = [t \in {1} |-> IdleTask("none")]


(* ---------------- persistence ---------------- *)

\* save_state(state) with the state given by its five fields.  ok = FALSE is
\* a call that raises (open() fails) and leaves bot_state.json as it was;
\* else json.dump writes the dict (see StateFile).
save_state(ok, p, rb, pos, ref, run) ==
    /\ ok \/ saveFailures < MaxSaveFailures
    /\ disk' = IF ok THEN Serializable(p, rb, pos, ref, run) ELSE disk
    /\ saveFailures' = IF ok THEN saveFailures ELSE saveFailures + 1

(* ---------------- Discord commands ---------------- *)

\* A command body has no await before its final ctx.send, so it is one step.
\* A save_state that raises ends the command after the in-memory change.

setcoin(symbol, ok) ==
    /\ params' = [params EXCEPT !.symbol = symbol]
    /\ last_reference_price' = None
    /\ refSymbol' = NoSymbol
    /\ save_state(ok, params', remaining_budget, positions, None, running)
    /\ UNCHANGED <<remaining_budget, positions, running, tasks, price_task, starting>>

\* the range test of set_decrease and set_increase (pct <= 0 or pct >= 1); a
\* setter called with a rejected argument replies and returns (ok is unused)
PctRejected(pct) == pct <= 0 \/ pct >= 100

set_decrease(pct, ok) ==
    IF PctRejected(pct)
    THEN ok /\ UNCHANGED vars
    ELSE /\ params' = [params EXCEPT !.decrease_pct = pct]
         /\ save_state(ok, params', remaining_budget, positions,
                       last_reference_price, running)
         /\ UNCHANGED <<remaining_budget, positions, last_reference_price, running,
                        tasks, price_task, starting, refSymbol>>

set_increase(pct, ok) ==
    IF PctRejected(pct)
    THEN ok /\ UNCHANGED vars
    ELSE /\ params' = [params EXCEPT !.increase_pct = pct]
         /\ save_state(ok, params', remaining_budget, positions,
                       last_reference_price, running)
         /\ UNCHANGED <<remaining_budget, positions, last_reference_price, running,
                        tasks, price_task, starting, refSymbol>>

set_amount(amount, ok) ==
    IF amount <= 0
    THEN ok /\ UNCHANGED vars
    ELSE /\ params' = [params EXCEPT !.tx_amount = amount]
         /\ save_state(ok, params', remaining_budget, positions,
                       last_reference_price, running)
         /\ UNCHANGED <<remaining_budget, positions, last_reference_price, running,
                        tasks, price_task, starting, refSymbol>>

set_budget(amount, ok) ==
    IF amount <= 0
    THEN ok /\ UNCHANGED vars
    ELSE /\ params' = [params EXCEPT !.allocated_budget = amount]
         /\ remaining_budget' = amount
         /\ save_state(ok, params', amount, positions, last_reference_price, running)
         /\ UNCHANGED <<positions, last_reference_price, running,
                        tasks, price_task, starting, refSymbol>>

\* reset(): state.params becomes a new Parameters object and state.positions a
\* new dict.  An on_price that awaits market_buy keeps the old Parameters
\* object in its local params, with the values it had at this moment (the
\* continuation of market_sell reads no field of params).
reset(ok) ==
    /\ params' = DefaultParams
    /\ remaining_budget' = DefaultParams.allocated_budget
    /\ positions' = NoPositions
    /\ last_reference_price' = None
    /\ refSymbol' = NoSymbol
    /\ running' = FALSE
    /\ tasks' = [t \in Tasks |->
                   IF tasks[t].pc = "buy" /\ ~tasks[t].detached
                   THEN [tasks[t] EXCEPT !.detached = TRUE, !.par = params]
                   ELSE tasks[t]]
    /\ save_state(ok, DefaultParams, DefaultParams.allocated_budget, NoPositions,
                  None, FALSE)
    /\ UNCHANGED <<price_task, starting>>

(* ---------------- TradingBot.start / stop ---------------- *)

FreeSlots == {t \in Tasks : ~Alive(t)}

\* start command and TradingBot.start up to `await create_binance_client()`
\* (the guard on FreeSlots is the bound on the number of task slots)
StartBegin ==
    /\ ~running
    /\ starting < Cardinality(FreeSlots)
    /\ starting' = starting + 1
    /\ UNCHANGED <<params, remaining_budget, positions, last_reference_price,
                   running, disk, tasks, price_task, refSymbol, saveFailures>>

\* create_binance_client raises: TradingBot.start ends
StartFail ==
    /\ starting > 0
    /\ starting' = starting - 1
    /\ UNCHANGED <<params, remaining_budget, positions, last_reference_price,
                   running, disk, tasks, price_task, refSymbol, saveFailures>>

\* TradingBot.start after create_binance_client returned
StartFinish(ok) ==
    /\ starting > 0
    /\ starting' = starting - 1
    /\ running' = TRUE
    /\ save_state(ok, params, remaining_budget, positions, last_reference_price, TRUE)
    /\ IF ok
       THEN LET slot == CHOOSE t \in FreeSlots : \A u \in FreeSlots : t <= u
            IN /\ tasks' = [tasks EXCEPT ![slot] = IdleTask("top")]
               /\ price_task' = slot
       ELSE UNCHANGED <<tasks, price_task>>
    /\ UNCHANGED <<params, remaining_budget, positions, last_reference_price, refSymbol>>

InOrder(t) == tasks[t].pc \in {"buy", "sell_pt", "sell_ts"}

\* stop command and TradingBot.stop.  price_task.cancel() raises CancelledError
\* at the await the task is suspended in; the loop breaks (or, in
\* asyncio.sleep, the coroutine ends) without running any other statement.
\* executed: the exchange had executed the order the task was awaiting.
stop(ok, executed) ==
    /\ running
    /\ running' = FALSE
    /\ save_state(ok, params, remaining_budget, positions, last_reference_price, FALSE)
    /\ IF ok /\ price_task # None /\ Alive(price_task)
       THEN /\ executed => InOrder(price_task)
            /\ tasks' = [tasks EXCEPT ![price_task] =
                           IdleTask(IF executed THEN "lost" ELSE "none")]
       ELSE /\ ~executed
            /\ UNCHANGED tasks
    /\ UNCHANGED <<params, remaining_budget, positions, last_reference_price,
                   price_task, starting, refSymbol>>


(* ---------------- price_monitor_loop and on_price ---------------- *)

\* price <= last_reference_price * (1 - decrease_pct)
BuyTrigger(price, ref, dec) == price * 100 <= ref * (100 - dec)

\* price >= pos.buy_price * (1 + increase_pct)
TargetReached(price, bp, inc) == price * 100 >= bp * (100 + inc)

\* the trailing stop without the test `price >= pos.buy_price`
TrailingStopSellAtLoss(price, bp, hp, dec) ==
    /\ hp > bp
    /\ price * 100 <= hp * (100 - dec)

\* pos.highest_price > pos.buy_price, price <= trailing_stop_price and
\* price >= pos.buy_price
TrailingStopSell(price, bp, hp, dec) ==
    /\ hp > bp
    /\ price * 100 <= hp * (100 - dec)
    /\ price >= bp

Max(a, b) == IF a >= b THEN a ELSE b

\* the task goes to `await asyncio.sleep(2)` and drops on_price's locals
ToSleep(t) == tasks' = [tasks EXCEPT ![t] = IdleTask("top")]

\* `while self.state.running:` and, when it holds, the call of
\* get_current_price with the symbol configured at this moment
LoopTest(t) ==
    /\ t \in Tasks
    /\ tasks[t].pc = "top"
    /\ tasks' = [tasks EXCEPT ![t] =
                   IF running
                   THEN [IdleTask("fetch") EXCEPT !.sym = params.symbol]
                   ELSE IdleTask("none")]
    /\ UNCHANGED <<params, remaining_budget, positions, last_reference_price,
                   running, disk, price_task, starting, refSymbol, saveFailures>>

\* get_current_price raises: logged by the loop, which sleeps
FetchFail(t) ==
    /\ t \in Tasks
    /\ tasks[t].pc = "fetch"
    /\ ToSleep(t)
    /\ UNCHANGED <<params, remaining_budget, positions, last_reference_price,
                   running, disk, price_task, starting, refSymbol, saveFailures>>

\* on_price, lines 223-226: the reference price is not set
OnPriceBootstrap(t, price, ok) ==
    /\ t \in Tasks
    /\ tasks[t].pc = "fetch"
    /\ last_reference_price = None
    /\ last_reference_price' = price
    /\ refSymbol' = tasks[t].sym
    /\ save_state(ok, params, remaining_budget, positions, price, running)
    /\ ToSleep(t)
    /\ UNCHANGED <<params, remaining_budget, positions, running, price_task, starting>>

\* on_price, lines 229-236: buy signal with budget; market_buy is awaited
OnPriceBuy(t, price) ==
    /\ t \in Tasks
    /\ tasks[t].pc = "fetch"
    /\ last_reference_price # None
    /\ params.symbol \notin DOMAIN positions
    /\ BuyTrigger(price, last_reference_price, params.decrease_pct)
    /\ remaining_budget >= params.tx_amount
    /\ tasks' = [tasks EXCEPT ![t] =
                   [IdleTask("buy") EXCEPT !.amt = params.tx_amount]]
    /\ UNCHANGED <<params, remaining_budget, positions, last_reference_price,
                   running, disk, price_task, starting, refSymbol, saveFailures>>

\* the branch of lines 257-258 if it advanced the reference price to the
\* observed price
OnPriceInsufficientAdvance(t, price) ==
    /\ t \in Tasks
    /\ tasks[t].pc = "fetch"
    /\ last_reference_price # None
    /\ params.symbol \notin DOMAIN positions
    /\ BuyTrigger(price, last_reference_price, params.decrease_pct)
    /\ ~(remaining_budget >= params.tx_amount)
    /\ last_reference_price' = price
    /\ refSymbol' = tasks[t].sym
    /\ ToSleep(t)
    /\ UNCHANGED <<params, remaining_budget, positions, running, disk, price_task,
                   starting, saveFailures>>

\* on_price, lines 257-258: buy signal without budget
OnPriceInsufficient(t, price) ==
    /\ t \in Tasks
    /\ tasks[t].pc = "fetch"
    /\ last_reference_price # None
    /\ params.symbol \notin DOMAIN positions
    /\ BuyTrigger(price, last_reference_price, params.decrease_pct)
    /\ ~(remaining_budget >= params.tx_amount)
    /\ ToSleep(t)
    /\ UNCHANGED <<params, remaining_budget, positions, last_reference_price,
                   running, disk, price_task, starting, refSymbol, saveFailures>>

\* the branch of lines 259-263 if it stored every price that gives no buy
\* signal, a lower one too
OnPriceFollow(t, price, ok) ==
    /\ t \in Tasks
    /\ tasks[t].pc = "fetch"
    /\ last_reference_price # None
    /\ params.symbol \notin DOMAIN positions
    /\ ~BuyTrigger(price, last_reference_price, params.decrease_pct)
    /\ last_reference_price' = price
    /\ refSymbol' = tasks[t].sym
    /\ save_state(ok, params, remaining_budget, positions, price, running)
    /\ ToSleep(t)
    /\ UNCHANGED <<params, remaining_budget, positions, running, price_task, starting>>

\* on_price, lines 259-263: no buy signal; a higher price becomes the reference
OnPriceRatchet(t, price, ok) ==
    /\ t \in Tasks
    /\ tasks[t].pc = "fetch"
    /\ last_reference_price # None
    /\ params.symbol \notin DOMAIN positions
    /\ ~BuyTrigger(price, last_reference_price, params.decrease_pct)
    /\ IF price > last_reference_price
       THEN /\ last_reference_price' = price
            /\ refSymbol' = tasks[t].sym
            /\ save_state(ok, params, remaining_budget, positions, price, running)
       ELSE /\ ok
            /\ UNCHANGED <<last_reference_price, refSymbol, disk, saveFailures>>
    /\ ToSleep(t)
    /\ UNCHANGED <<params, remaining_budget, positions, running, price_task, starting>>

\* on_price, lines 264-300: a position is open for params.symbol.  The high
\* water mark is stored and saved; a save_state that raises ends on_price.
\* Then the profit target, else the trailing stop, may await market_sell.
OnPricePosition(t, price, ok) ==
    /\ t \in Tasks
    /\ tasks[t].pc = "fetch"
    /\ last_reference_price # None
    /\ params.symbol \in DOMAIN positions
    /\ LET pos == positions[params.symbol]
           hp == Max(pos.highest_price, price)
           newpos == [positions EXCEPT ![params.symbol].highest_price = hp]
           order == [tasks[t] EXCEPT !.price = price, !.osym = pos.symbol]
       IN /\ positions' = newpos
          /\ save_state(ok, params, remaining_budget, newpos,
                        last_reference_price, running)
          /\ tasks' = [tasks EXCEPT ![t] =
                 IF ~ok THEN IdleTask("top")
                 ELSE IF TargetReached(price, pos.buy_price, params.increase_pct)
                      THEN [order EXCEPT !.pc = "sell_pt"]
                 ELSE IF TrailingStopSell(price, pos.buy_price, hp, params.decrease_pct)
                      THEN [order EXCEPT !.pc = "sell_ts"]
                 ELSE IdleTask("top")]
    /\ UNCHANGED <<params, remaining_budget, last_reference_price, running,
                   price_task, starting, refSymbol>>


\* what `await market_buy(...)` gives back to on_price:
\*   order = FALSE: None (quantity rounds to 0, BinanceAPIException) or another
\*                  exception, which the loop logs
\*   order = TRUE:  the order response, with the summed quantity of its fills
\*                  (qty 0, or 1 for any quantity > 0) and their average price
BuyResponses ==
    {[order |-> FALSE, qty |-> 0, avg |-> 0], [order |-> TRUE, qty |-> 0, avg |-> 0]}
    \cup {[order |-> TRUE, qty |-> 1, avg |-> a] : a \in Prices}

\* what `await market_sell(...)` gives back: None / an exception, or the order
\* response with its executed quantity
SellResponses ==
    {[order |-> FALSE, qty |-> 0], [order |-> TRUE, qty |-> 0], [order |-> TRUE, qty |-> 1]}

\* on_price's local params after the await of market_buy
LocalParams(t) == IF tasks[t].detached THEN tasks[t].par ELSE params

\* on_price, lines 237-256: the continuation of market_buy
BuyReturn(t, resp, ok) ==
    /\ t \in Tasks
    /\ tasks[t].pc = "buy"
    /\ IF resp.order /\ resp.qty > 0
       THEN LET p == LocalParams(t)
                newpos == DictSet(positions, p.symbol,
                                  Position(p.symbol, resp.avg, resp.avg))
            IN /\ positions' = newpos
               /\ remaining_budget' = remaining_budget - p.tx_amount
               /\ save_state(ok, params, remaining_budget', newpos,
                             last_reference_price, running)
       ELSE /\ ok
            /\ UNCHANGED <<positions, remaining_budget, disk, saveFailures>>
    /\ ToSleep(t)
    /\ UNCHANGED <<params, last_reference_price, running, price_task, starting,
                   refSymbol>>

\* on_price, lines 275-282 and 292-297: the continuation of market_sell.
\* `if order:` holds for every order response.  del raises KeyError when
\* state.positions has no key pos.symbol (after reset()).  ok1 and ok2 are the
\* two save_state calls; the second is reached when the first returns, and
\* when it raises the file keeps what the first wrote: the state without the
\* position and with the reference price of before the sale.
SellReturn(t, resp, ok1, ok2) ==
    /\ t \in Tasks
    /\ tasks[t].pc \in {"sell_pt", "sell_ts"}
    /\ IF resp.order /\ tasks[t].osym \in DOMAIN positions
       THEN LET newpos == DictDel(positions, tasks[t].osym)
            IN /\ positions' = newpos
               /\ IF ok1
                  THEN /\ last_reference_price' = tasks[t].price
                       /\ refSymbol' = tasks[t].sym
                       /\ IF ok2
                          THEN save_state(TRUE, params, remaining_budget, newpos,
                                          tasks[t].price, running)
                          ELSE /\ saveFailures < MaxSaveFailures
                               /\ disk' = Serializable(params, remaining_budget, newpos,
                                                       last_reference_price, running)
                               /\ saveFailures' = saveFailures + 1
                  ELSE /\ ok2
                       /\ save_state(FALSE, params, remaining_budget, newpos,
                                     last_reference_price, running)
                       /\ UNCHANGED <<last_reference_price, refSymbol>>
       ELSE /\ ok1 /\ ok2
            /\ UNCHANGED <<positions, last_reference_price, refSymbol, disk,
                           saveFailures>>
    /\ ToSleep(t)
    /\ UNCHANGED <<params, remaining_budget, running, price_task, starting>>

(* ---------------- specification ---------------- *)

\* oks: the outcomes of save_state that the specification admits
Command(oks) ==
    \E ok \in oks :
        \/ \E symbol \in Symbols : setcoin(symbol, ok)
        \/ \E pct \in DecreaseInputs : set_decrease(pct, ok)
        \/ \E pct \in IncreaseInputs : set_increase(pct, ok)
        \/ \E amount \in AmountInputs : set_amount(amount, ok)
        \/ \E amount \in BudgetInputs : set_budget(amount, ok)
        \/ reset(ok)

StartStop(oks) ==
    \/ StartBegin
    \/ StartFail
    \/ \E ok \in oks : StartFinish(ok)
    \/ \E ok \in oks, executed \in BOOLEAN : stop(ok, executed)

Loop(oks) ==
    \E t \in AllSlots :
        \/ LoopTest(t)
        \/ FetchFail(t)
        \/ \E price \in Prices, ok \in oks :
              \/ OnPriceBootstrap(t, price, ok)
              \/ OnPriceRatchet(t, price, ok)
              \/ OnPricePosition(t, price, ok)
        \/ \E price \in Prices :
              \/ OnPriceBuy(t, price)
              \/ OnPriceInsufficient(t, price)
        \/ \E resp \in BuyResponses, ok \in oks : BuyReturn(t, resp, ok)
        \/ \E resp \in SellResponses, ok1, ok2 \in oks : SellReturn(t, resp, ok1, ok2)

\* every save_state call returns
Next == Command({TRUE}) \/ StartStop({TRUE}) \/ Loop({TRUE})

Spec == Init /\ [][Next]_vars

\* Persistence failures: any save_state call may raise, up to MaxSaveFailures
\* times.  One symbol, default percentages and amounts; the commands are
\* setcoin, reset, start and stop.
NextSaveFail ==
    \/ \E ok \in BOOLEAN : setcoin(DefaultSymbol, ok) \/ reset(ok)
    \/ StartStop(BOOLEAN)
    \/ Loop(BOOLEAN)

SpecSaveFail == Init /\ [][NextSaveFail]_vars

\* Two task slots: start may be issued while an earlier loop task is alive.
\* Default configuration; the commands are reset, start and stop; every
\* save_state call returns.
InitTwoLoops ==
    /\ InitState
    /\ tasks = [t \in AllSlots |-> IdleTask("none")]

NextTwoLoops == reset(TRUE) \/ StartStop({TRUE}) \/ Loop({TRUE})

SpecTwoLoops == InitTwoLoops /\ [][NextTwoLoops]_vars

(* ---------------- process restart and the round trip of the state file ---------------- *)

\* load_state that takes remaining_budget from params.allocated_budget and
\* not from the file
load_state_full_budget(doc) ==
    [load_state(doc) EXCEPT !.remaining_budget = load_state(doc).params.allocated_budget]

\* load_state as the module calls it
LoadState(doc) == load_state(doc)

\* The process is started again with the state file it left: the module-level
\* `state = load_state()` and `trading_bot = TradingBot(state, bot)`.  No
\* coroutine of the old process exists, price_task is None.
Restart ==
    LET st == LoadState(StateFile)
    IN /\ params' = st.params
       /\ remaining_budget' = st.remaining_budget
       /\ positions' = st.positions
       /\ last_reference_price' = st.last_reference_price
       /\ running' = st.running
       /\ tasks' = [t \in Tasks |-> IdleTask("none")]
       /\ price_task' = None
       /\ starting' = 0
       /\ UNCHANGED <<disk, refSymbol, saveFailures>>

\* The process may be killed and started again at any moment.  Default
\* configuration, one task slot; the commands are reset, start and stop; every
\* save_state call returns.
NextRestart == reset(TRUE) \/ StartStop({TRUE}) \/ Loop({TRUE}) \/ Restart

SpecRestart == Init /\ [][NextRestart]_vars

\* save_state(state) for the state in memory
SaveState ==
    /\ save_state(TRUE, params, remaining_budget, positions, last_reference_price,
                  running)
    /\ UNCHANGED <<params, remaining_budget, positions, last_reference_price,
                   running, tasks, price_task, starting, refSymbol>>

\* valid values of the configuration, as the setters accept them
ValidParams ==
    [symbol : Symbols,
     decrease_pct : {pct \in DecreaseInputs : ~PctRejected(pct)},
     increase_pct : {pct \in IncreaseInputs : ~PctRejected(pct)},
     tx_amount : {amount \in AmountInputs : amount > 0},
     allocated_budget : {amount \in BudgetInputs : amount > 0}]

\* dicts of positions keyed by their symbol, highest_price >= buy_price
ValidPositions ==
    UNION {[keys -> Prices \X Prices] : keys \in SUBSET Symbols}

PositionsOf(f) == [k \in DOMAIN f |-> Position(k, f[k][1], Max(f[k][1], f[k][2]))]

\* the round trip is applied to every valid state: the file is the one of a
\* first run, the state in memory is any valid state
InitRoundTrip ==
    /\ params \in ValidParams
    /\ remaining_budget \in {0} \cup AmountInputs \cup BudgetInputs
    /\ \E f \in ValidPositions : positions = PositionsOf(f)
    /\ last_reference_price \in {None} \cup Prices
    /\ running \in BOOLEAN
    /\ disk = Serializable(DefaultParams, DefaultParams.allocated_budget,
                           NoPositions, None, FALSE)
    /\ tasks = [t \in {1} |-> IdleTask("none")]
    /\ price_task = None
    /\ starting = 0
    /\ refSymbol = NoSymbol
    /\ saveFailures = 0

NextRoundTrip == SaveState \/ Restart

SpecRoundTrip == InitRoundTrip /\ [][NextRoundTrip]_vars


(* ---------------- properties ---------------- *)

\* task t, which was awaiting get_current_price, now awaits market_sell
SellPlaced(t) ==
    /\ tasks[t].pc = "fetch"
    /\ tasks'[t].pc \in {"sell_pt", "sell_ts"}

\* task t, which was awaiting get_current_price, now awaits market_buy
BuyPlaced(t) ==
    /\ tasks[t].pc = "fetch"
    /\ tasks'[t].pc = "buy"

\* the continuation of market_buy applies a fill with quantity > 0
BuyFillApplied(t) ==
    \E resp \in BuyResponses, ok \in BOOLEAN :
        resp.order /\ resp.qty > 0 /\ BuyReturn(t, resp, ok)

\* a configuration command changes the state
CommandStep == Command(BOOLEAN)

\* C1: on_price places a sell order (profit target or trailing stop) only when
\* the price of that tick is >= buy_price of the position it sells.
C1_LossInvariant ==
    [][\A t \in Tasks :
          SellPlaced(t) =>
              /\ params.symbol \in DOMAIN positions
              /\ tasks'[t].price >= positions[params.symbol].buy_price]_vars

\* C1 witness: a trailing-stop sell is awaited for a position that is still
\* open, at a price that is not below its buy price
C1_Witness ==
    \E t \in Tasks :
        /\ tasks[t].pc = "sell_ts"
        /\ tasks[t].osym \in DOMAIN positions
        /\ tasks[t].price >= positions[tasks[t].osym].buy_price
        /\ tasks[t].price < positions[tasks[t].osym].highest_price

\* C2: 0 <= remaining_budget <= allocated_budget in every reachable state.
C2_BudgetInvariant ==
    /\ 0 <= remaining_budget
    /\ remaining_budget <= params.allocated_budget

\* C3: remaining_budget changes only by set_budget, by reset, or by a buy fill
\* that lowers it by exactly the quote amount sent with market_buy.
C3_BudgetDecrement ==
    [][remaining_budget' # remaining_budget =>
          \/ \E amount \in BudgetInputs, ok \in BOOLEAN : set_budget(amount, ok)
          \/ \E ok \in BOOLEAN : reset(ok)
          \/ \E t \in Tasks :
                /\ BuyFillApplied(t)
                /\ remaining_budget' = remaining_budget - tasks[t].amt]_vars

\* C4: a buy order is never placed, and a buy fill never applied, while a
\* Position for the active symbol is open or another buy is in flight.
C4_SinglePosition ==
    [][\A t \in Tasks :
          BuyPlaced(t) \/ BuyFillApplied(t) =>
              /\ params.symbol \notin DOMAIN positions
              /\ \A u \in Tasks \ {t} : tasks[u].pc # "buy"]_vars

\* C5: state.positions has at most one entry, and it is for params.symbol.
C5_OnePosition ==
    /\ Cardinality(DOMAIN positions) <= 1
    /\ DOMAIN positions \subseteq {params.symbol}

\* C6: no configuration command changes the state while an on_price call is
\* between its start and the application of its fill.
C6_CommandsExcluded ==
    [][CommandStep => \A t \in Tasks : ~InOrder(t)]_vars

\* C7: a loop task never ends while the fill of an order that the exchange
\* executed for it is not applied.
C7_CooperativeStop ==
    \A t \in Tasks : tasks[t].pc # "lost"

\* a response without an order, or with executed quantity 0
ZeroOrFailed(resp) == ~resp.order \/ resp.qty = 0

\* C8: the continuation of a failed order, or of a fill with quantity 0,
\* leaves positions, remaining_budget and last_reference_price unchanged and
\* returns the task to the loop.
C8_FailedFillNoMutation ==
    [][\A t \in Tasks :
          (\/ \E resp \in BuyResponses, ok \in BOOLEAN :
                 ZeroOrFailed(resp) /\ BuyReturn(t, resp, ok)
           \/ \E resp \in SellResponses, ok1, ok2 \in BOOLEAN :
                 ZeroOrFailed(resp) /\ SellReturn(t, resp, ok1, ok2))
          => /\ UNCHANGED <<positions, remaining_budget, last_reference_price>>
             /\ tasks'[t].pc = "top"]_vars

\* C9: when save_state raises inside on_price, running is false afterwards.
C9_HaltOnSaveFailure ==
    [][\A t \in Tasks :
          (/\ tasks[t].pc \in {"fetch", "buy", "sell_pt", "sell_ts"}
           /\ tasks'[t].pc = "top"
           /\ saveFailures' > saveFailures)
          => ~running']_vars

\* C10: whenever last_reference_price is set, it is a price that was fetched
\* for the symbol configured now.
C10_ReferenceOfSymbol ==
    last_reference_price # None => refSymbol = params.symbol

\* the continuation of market_sell applies a sell (removes the position)
SellFillApplied(t) ==
    /\ tasks[t].pc \in {"sell_pt", "sell_ts"}
    /\ tasks'[t].pc = "top"
    /\ tasks[t].osym \in DOMAIN positions
    /\ tasks[t].osym \notin DOMAIN positions'

\* on_price, called by task t with a fetched price, writes the state
ObservationStored(t) ==
    /\ tasks[t].pc = "fetch"
    /\ tasks'[t].pc \in {"top", "sell_pt", "sell_ts"}
    /\ <<positions, last_reference_price>>' # <<positions, last_reference_price>>

\* C11: in a step that starts with running = FALSE no loop task stores a price
\* observation, places an order or applies a fill.
C11_OnlyWhileRunning ==
    [][~running =>
          \A t \in Tasks :
              /\ ~ObservationStored(t)
              /\ ~BuyPlaced(t) /\ ~SellPlaced(t)
              /\ ~BuyFillApplied(t) /\ ~SellFillApplied(t)]_vars

\* on_price is called by task t with no position for the active symbol, a
\* reference price, and less budget than one transaction needs
BudgetBlocked(t) ==
    /\ tasks[t].pc = "fetch"
    /\ last_reference_price # None
    /\ params.symbol \notin DOMAIN positions
    /\ remaining_budget < params.tx_amount

\* C12: an on_price call with no position and remaining_budget < tx_amount
\* places no buy order and leaves positions, remaining_budget, params and
\* running unchanged; it leaves last_reference_price and the state file
\* unchanged too unless the observed price is above the buy threshold (only
\* such a price becomes the reference).
C12_InsufficientBudgetIdle ==
    [][\A t \in Tasks :
          BudgetBlocked(t) /\ tasks'[t].pc \in {"top", "buy", "sell_pt", "sell_ts"} =>
              /\ ~BuyPlaced(t)
              /\ UNCHANGED <<positions, remaining_budget, params, running>>
              /\ \/ UNCHANGED <<last_reference_price, disk>>
                 \/ ~BuyTrigger(last_reference_price', last_reference_price,
                                params.decrease_pct)]_vars

\* C12 witness: on_price is called with the budget below tx_amount and the
\* ticker can report a price at or below the buy threshold
C12_Witness ==
    \E t \in Tasks :
        /\ BudgetBlocked(t)
        /\ running
        /\ \E price \in Prices :
              BuyTrigger(price, last_reference_price, params.decrease_pct)

\* the continuation of market_sell in task t removes the position it sold
\* from the state file
SellOnDisk(t) ==
    /\ tasks[t].pc \in {"sell_pt", "sell_ts"}
    /\ tasks'[t].pc = "top"
    /\ tasks[t].osym \in DOMAIN load_state(StateFile).positions
    /\ tasks[t].osym \notin DOMAIN load_state(StateFile').positions

\* the continuation of market_buy in task t adds a position to the state file
BuyOnDisk(t) ==
    /\ tasks[t].pc = "buy"
    /\ tasks'[t].pc = "top"
    /\ DOMAIN load_state(StateFile').positions # DOMAIN load_state(StateFile).positions

\* C13: the state file never holds a partially applied fill: a write that
\* removes a sold position from the file also holds the reference price of
\* that tick, and a write that adds a bought position also holds the lowered
\* remaining_budget.
C13_CrashConsistency ==
    [][\A t \in Tasks :
          /\ SellOnDisk(t) => load_state(StateFile').last_reference_price = tasks[t].price
          /\ BuyOnDisk(t) =>
                load_state(StateFile').remaining_budget = remaining_budget']_vars

\* the state file is what save_state writes for the state in memory
Saved ==
    StateFile = json_dump(Serializable(params, remaining_budget, positions,
                                       last_reference_price, running))

\* C14: load_state applied to the file that save_state wrote for a state
\* returns that state in every field.
C14_RoundTrip ==
    [][Saved /\ Restart =>
          UNCHANGED <<params, remaining_budget, positions, last_reference_price,
                      running>>]_vars

\* C14 witness: save_state wrote a state with a position, no reference price
\* (null) and a remaining budget that is not the allocated budget
C14_Witness ==
    /\ Saved
    /\ positions # NoPositions
    /\ last_reference_price = None
    /\ running
    /\ remaining_budget # params.allocated_budget

\* on_price(price) is called by task t and runs to its first await or its end
OnPrice(t, price) ==
    \/ \E ok \in BOOLEAN :
          \/ OnPriceBootstrap(t, price, ok)
          \/ OnPriceRatchet(t, price, ok)
          \/ OnPricePosition(t, price, ok)
    \/ OnPriceBuy(t, price)
    \/ OnPriceInsufficient(t, price)

\* C15: an on_price call made while a Position for params.symbol is open sets
\* its highest_price to max(highest_price, price), and the state file holds
\* the positions of the state afterwards.
C15_HighWaterMark ==
    [][\A t \in Tasks, price \in Prices :
          params.symbol \in DOMAIN positions /\ OnPrice(t, price) =>
              /\ params.symbol \in DOMAIN positions'
              /\ positions'[params.symbol].highest_price =
                     Max(positions[params.symbol].highest_price, price)
              /\ load_state(StateFile').positions = positions']_vars

\* the continuation of market_sell in task t for an order with executed
\* quantity > 0
SellFillConfirmed(t) ==
    \E resp \in SellResponses, ok1, ok2 \in BOOLEAN :
        resp.order /\ resp.qty > 0 /\ SellReturn(t, resp, ok1, ok2)

\* C16: the continuation of a confirmed sell removes the position (when the
\* dict still holds it) and sets last_reference_price to the price of the
\* tick that placed the order; an on_price call made while a Position for
\* params.symbol is open leaves last_reference_price unchanged.
C16_ReferenceFrozen ==
    [][\A t \in Tasks :
          /\ SellFillConfirmed(t) /\ tasks[t].osym \in DOMAIN positions =>
                /\ tasks[t].osym \notin DOMAIN positions'
                /\ last_reference_price' = tasks[t].price
          /\ \A price \in Prices :
                params.symbol \in DOMAIN positions /\ OnPrice(t, price) =>
                    UNCHANGED last_reference_price]_vars

\* C17: with no position, a step that does not clear last_reference_price
\* does not lower it; an on_price call with no position for params.symbol
\* leaves it at the maximum of its value and the observed price (unchanged
\* for a price below it, with or without buy signal or budget); the
\* continuation of market_buy leaves it unchanged.
C17_Ratchet ==
    [][/\ (/\ positions = NoPositions
           /\ last_reference_price # None
           /\ last_reference_price' # None)
          => last_reference_price' >= last_reference_price
       /\ \A t \in Tasks :
             /\ (/\ tasks[t].pc = "fetch"
                 /\ tasks'[t].pc # "fetch"
                 /\ last_reference_price # None
                 /\ params.symbol \notin DOMAIN positions)
                => \A price \in Prices :
                      OnPrice(t, price) =>
                          last_reference_price' = Max(last_reference_price, price)
             /\ (/\ tasks[t].pc = "buy"
                 /\ \E resp \in BuyResponses, ok \in BOOLEAN : BuyReturn(t, resp, ok))
                => UNCHANGED last_reference_price]_vars

\* C17 witness: on_price is called with no position and a reference price
\* that has, among the prices the ticker can report, one above it and one
\* below it that is above the buy threshold
C17_Witness ==
    \E t \in Tasks :
        /\ tasks[t].pc = "fetch"
        /\ running
        /\ positions = NoPositions
        /\ last_reference_price # None
        /\ \E price \in Prices : price > last_reference_price
        /\ \E price \in Prices :
              /\ price < last_reference_price
              /\ ~BuyTrigger(price, last_reference_price, params.decrease_pct)

\* trailing_stop_price = pos.highest_price * (1 - params.decrease_pct), times 100
TrailingStopPrice(pos, p) == pos.highest_price * (100 - p.decrease_pct)

\* C18: while a Position for the active symbol stays open, no step lowers the
\* trailing-stop threshold that on_price computes from it.
C18_StopNeverFalls ==
    [][(/\ params'.symbol = params.symbol
        /\ params.symbol \in DOMAIN positions
        /\ params.symbol \in DOMAIN positions')
       => TrailingStopPrice(positions'[params.symbol], params') >=
             TrailingStopPrice(positions[params.symbol], params)]_vars

\* C19: at most one price_monitor_loop task is alive.
C19_SingleLoop ==
    Cardinality({t \in Tasks : Alive(t)}) <= 1

\* C20: whenever running is true, a price_monitor_loop task is alive or a
\* TradingBot.start is on its way to create one.  (A start command issued
\* while running is true returns at once, so it creates none.)
C20_RunningHasLoop ==
    running => (\E t \in Tasks : Alive(t)) \/ starting > 0

====
